---- MODULE Spec2Model ----
(***************************************************************************)
(* State machine of the 1010S robot program: the operator-control loop    *)
(* (opcontrol, src/src/main.cpp:133-277) and the autonomous script        *)
(* (autonomous, src/src/main.cpp:54-118) it can call.                     *)
(*                                                                         *)
(* Program counters are source line numbers: pc is the line of opcontrol  *)
(* about to run, apc indexes the autonomous script (0 = not running).     *)
(*                                                                         *)
(* Stick values are integers, One raw units being full scale (1.0).       *)
(* Values handed to the drive model are in fine units, Fine fine units    *)
(* to a raw unit, so that y/4.0 and left_x/1.5 are exact.                 *)
(***************************************************************************)
EXTENDS Integers, Sequences, FiniteSets, TLC

VARIABLES
    pc,             \* opcontrol: line about to execute
    apc,            \* autonomous: index into Script, 0 when not running
    running,        \* number of autonomous() invocations in progress
    blocked,        \* autonomous is inside a blocking chassis call
    dt_mode,        \* DRIVETRAIN_MODE dt_mode
    ctrl_mode,      \* CONTROL_MODE ctrl_mode
    count,          \* int count
    btnY, btnB,     \* controller: the Y and B buttons as they are now
    yFresh, bFresh, \* history: the button was pressed since it last flipped its mode
    sample,         \* history: the last getDigital call, [btn, val]
    sinceSample,    \* history: ms opcontrol slept since that getDigital call
    yPresses, bPresses, \* history: confirmed presses of Y / B so far
    drive,          \* last open-loop command opcontrol gave the chassis model
    intake_l, intake_r, rollers_front, rollers_back,  \* last commanded velocity
    motion,         \* the goal active on autonomous's chassis controller
    maxVel,         \* the velocity cap of autonomous's chassis controller
    motionError,    \* a ConcurrentMotionError was raised
    lcd,            \* the last message sent to the display, [kind, val]
    lcdCount,       \* history: messages sent to the display so far
    tickMs,         \* history: ms opcontrol slept in this loop iteration so far
    asserted,       \* history: first samples of Y, B, A read asserted in this iteration
    held            \* history: the buttons down at this iteration's last actuator stage

modes == <<dt_mode, ctrl_mode>>
buttons == <<btnY, btnB, yFresh, bFresh>>
history == <<sample, sinceSample, yPresses, bPresses>>
actuators == <<intake_l, intake_r, rollers_front, rollers_back>>
chassisVars == <<motion, maxVel, motionError>>
autonVars == <<apc, running, blocked>>
display == <<lcd, lcdCount>>
timing == <<tickMs, asserted>>
vars == <<pc, apc, running, blocked, dt_mode, ctrl_mode, count, btnY, btnB,
          yFresh, bFresh, sample, sinceSample, yPresses, bPresses, drive,
          intake_l, intake_r, rollers_front, rollers_back,
          motion, maxVel, motionError, lcd, lcdCount, tickMs, asserted, held>>

----------------------------------------------------------------------------
(* Bounds of the model *)

\* opcontrol's loop is followed until count reaches MaxCount
MaxCount == 2

\* its bound when Y and B are left alone, so that 25 iterations are passed
MaxTicks == 26

\* the stick grid of the drive-mixing specification has 2*AxisLevels+1 points
AxisLevels == 10

----------------------------------------------------------------------------
(* Numbers *)

\* full scale of an analog axis, in raw units (getAnalog returns [-1, 1])
One == 120

\* fine units per raw unit: the denominators of 1.5 = 3/2 and of 4.0
Fine == 3 * 4

\* the deadband 0.15 handed to arcade(), in percent of full scale
DeadbandPct == 15

\* tank() is called without a deadband: the declaration's default
TankDefaultPct == 0

\* pros::delay(50), the debounce wait
DebounceMs == 50

\* pros::delay(10), the loop delay
LoopMs == 10

\* (count % 25) == 0
LcdPeriod == 25

OneF == One * Fine

Abs(x) == IF x < 0 THEN -x ELSE x

----------------------------------------------------------------------------
(* enums.h: DRIVETRAIN_MODE {FAST, SLOW}, CONTROL_MODE {ARCADE, TANK} *)

DtModes == {"FAST", "SLOW"}

CtrlModes == {"ARCADE", "TANK"}

\* a switch whose SLOW case does not lead back
ToggleDt_stuck(m) == "SLOW"

\* switch (dt_mode) { case FAST: dt_mode = SLOW; break; case SLOW: dt_mode = FAST; break; }
ToggleDt(m) ==
    CASE m = "FAST" -> "SLOW"
      [] m = "SLOW" -> "FAST"
      [] OTHER -> m

\* switch (ctrl_mode) { case ARCADE: ctrl_mode = TANK; break; case TANK: ctrl_mode = ARCADE; break; }
ToggleCtrl(m) ==
    CASE m = "ARCADE" -> "TANK"
      [] m = "TANK" -> "ARCADE"
      [] OTHER -> m

----------------------------------------------------------------------------
(* The drive model behind chassis->getModel(): deadband, then mixing *)

DbFine(pct) == (pct * OneF) \div 100

\* |x| < deadband => x = 0
Deadband(x, db) == IF Abs(x) < db THEN 0 ELSE x

Clamp(x) == IF x > OneF THEN OneF ELSE IF x < -OneF THEN -OneF ELSE x

\* left = forward + turn, right = forward - turn, each clamped to [-1, 1]
arcadeMix(forward, turn) ==
    [left |-> Clamp(forward + turn), right |-> Clamp(forward - turn)]

\* identity
tankMix(left, right) == [left |-> left, right |-> right]

arcade(forward, turn, db) == arcadeMix(Deadband(forward, db), Deadband(turn, db))

tank(left, right, db) == tankMix(Deadband(left, db), Deadband(right, db))

----------------------------------------------------------------------------
(* The input mapping of opcontrol, lines 208-229 *)

\* (dt_mode == FAST) ? y : y / 4.0
ScaleY(dt, y) == IF dt = "FAST" THEN y * Fine ELSE (y * Fine) \div 4

\* the turn divided by 4.0 in both speed modes
Yaw_slowOnly(dt, left_x, right_x) == (left_x * Fine) \div 4 + right_x * Fine

\* the sum of the two turn contributions brought back into [-1, 1]
Yaw_clamped(dt, left_x, right_x) ==
    LET sum == IF dt = "FAST"
               THEN (left_x * Fine * 2) \div 3 + right_x * Fine
               ELSE (left_x * Fine) \div 4 + right_x * Fine
    IN  IF sum > One * Fine THEN One * Fine
        ELSE IF sum < -(One * Fine) THEN -(One * Fine) ELSE sum

\* (dt_mode == FAST) ? (left_x / 1.5) + right_x : (left_x / 4.0) + right_x
Yaw(dt, left_x, right_x) ==
    IF dt = "FAST"
    THEN (left_x * Fine * 2) \div 3 + right_x * Fine
    ELSE (left_x * Fine) \div 4 + right_x * Fine

\* an arcade call that passes no deadband
ArcadeDb_none == DbFine(0)

\* the deadband argument of the arcade call, line 217
ArcadeDb == DbFine(DeadbandPct)

\* the deadband of the tank call, line 228: none is passed
TankDb == DbFine(TankDefaultPct)

NoDrive ==
    [kind |-> "none", dt |-> "FAST", ly |-> 0, lx |-> 0, rx |-> 0, ry |-> 0,
     a |-> 0, b |-> 0, db |-> 0, left |-> 0, right |-> 0]

\* the command of one pass through lines 208-229: the sticks read (ly, lx, rx,
\* ry), the two values passed (a, b), the deadband in force (db) and the wheel
\* outputs of the drive model (left, right)
DriveCommand(dt, ct, ly, lx, rx, ry) ==
    IF ct = "ARCADE"
    THEN LET forward == ScaleY(dt, ly)
             yaw == Yaw(dt, lx, rx)
             out == arcade(forward, yaw, ArcadeDb)
         IN  [kind |-> "arcade", dt |-> dt, ly |-> ly, lx |-> lx, rx |-> rx, ry |-> 0,
              a |-> forward, b |-> yaw, db |-> ArcadeDb,
              left |-> out.left, right |-> out.right]
    ELSE LET left == ScaleY(dt, ly)
             right == ScaleY(dt, ry)
             out == tank(left, right, TankDb)
         IN  [kind |-> "tank", dt |-> dt, ly |-> ly, lx |-> 0, rx |-> 0, ry |-> ry,
              a |-> left, b |-> right, db |-> TankDb,
              left |-> out.left, right |-> out.right]

----------------------------------------------------------------------------
(* autonomous(), lines 54-118, statement by statement *)

Ins(line, op, arg, val) == [line |-> line, op |-> op, arg |-> arg, val |-> val]

Script ==
    << Ins(56, "build", "chassis", 0),          \* build_chassis_controller, brake mode
       Ins(58, "maxvel", "chassis", 100),
       Ins(67, "motor", "rollers_front", 600),  \* 1-point
       Ins(68, "motor", "rollers_back", 600),
       Ins(69, "motor", "intake_l", 200),
       Ins(70, "motor", "intake_r", 200),
       Ins(71, "delay", "ms", 1000),
       Ins(72, "motor", "rollers_front", 0),
       Ins(73, "motor", "rollers_back", 0),
       Ins(74, "motor", "intake_l", 0),
       Ins(75, "motor", "intake_r", 0),
       Ins(78, "sync", "distance_cm", 15),      \* set up position to intake ball
       Ins(79, "delay", "ms", 200),
       Ins(80, "sync", "turn_deg", 110),
       Ins(81, "maxvel", "chassis", 200),
       Ins(82, "sync", "distance_cm", -10),
       Ins(83, "maxvel", "chassis", 120),
       Ins(84, "delay", "ms", 300),
       Ins(85, "sync", "distance_cm", 15),
       Ins(86, "delay", "ms", 200),
       Ins(87, "sync", "turn_deg", 102),
       Ins(88, "delay", "ms", 200),
       Ins(91, "maxvel", "chassis", 80),        \* intake ball
       Ins(92, "async", "distance_cm", 30),
       Ins(93, "motor", "intake_l", 200),
       Ins(94, "motor", "intake_r", 200),
       Ins(95, "wait", "chassis", 0),
       Ins(96, "delay", "ms", 200),
       Ins(99, "maxvel", "chassis", 120),       \* move back
       Ins(100, "sync", "distance_in", -30),
       Ins(101, "motor", "intake_l", 0),
       Ins(102, "motor", "intake_r", 0),
       Ins(103, "delay", "ms", 200),
       Ins(104, "sync", "turn_deg", -15),
       Ins(105, "delay", "ms", 200),
       Ins(106, "sync", "distance_in", -8),
       Ins(109, "motor", "rollers_front", 600), \* shoot
       Ins(110, "motor", "rollers_back", 600),
       Ins(111, "motor", "intake_l", 200),
       Ins(112, "motor", "intake_r", 200),
       Ins(113, "delay", "ms", 1000),
       Ins(114, "motor", "rollers_front", 0),
       Ins(115, "motor", "rollers_back", 0),
       Ins(116, "motor", "intake_l", 0),
       Ins(117, "motor", "intake_r", 0),
       Ins(118, "return", "autonomous", 0) >>

\* the statement autonomous() is at
Cur == Script[apc]

\* autonomous() is at source line n
AtLine(n) == apc # 0 /\ Cur.line = n

NoMotion == [kind |-> "none", val |-> 0, cap |-> 0, mode |-> "none"]

Goal(ins, mode) == [kind |-> ins.arg, val |-> ins.val, cap |-> maxVel, mode |-> mode]

InFlight == motion.kind # "none"

AsyncInFlight == motion.mode = "async"

----------------------------------------------------------------------------
(* The chassis controller of autonomous() *)

\* a goal is handed to the controller: a second goal while one is active is
\* rejected with ConcurrentMotionError and leaves the first one alone
Issue(goal) ==
    IF InFlight
    THEN motionError' = TRUE /\ UNCHANGED motion
    ELSE motion' = goal /\ UNCHANGED motionError

\* a waitUntilSettled that returns at once
WaitReturns_atOnce == TRUE

\* the condition chassis->waitUntilSettled() (line 95) returns on
WaitReturns == ~InFlight

\* the active motion reaches its tolerance band, or times out
Settle ==
    /\ InFlight
    /\ motion' = NoMotion
    /\ UNCHANGED <<pc, autonVars, modes, count, buttons, history, drive, actuators,
                   maxVel, motionError,
                   display, held, timing>>

----------------------------------------------------------------------------
(* autonomous(): one action per kind of statement *)

teleopFrozen == <<pc, modes, count, buttons, history, drive, display, held, timing>>

AutonBuild ==
    /\ apc # 0 /\ Cur.op = "build"
    /\ motion' = NoMotion
    /\ apc' = apc + 1
    /\ UNCHANGED <<teleopFrozen, running, blocked, actuators, maxVel, motionError>>

\* a setMaxVelocity that leaves the cap of the controller as built
AutonSetMaxVelocity_ignored ==
    /\ apc # 0 /\ Cur.op = "maxvel"
    /\ apc' = apc + 1
    /\ UNCHANGED <<teleopFrozen, running, blocked, actuators, chassisVars>>

\* chassis->setMaxVelocity(v)
AutonSetMaxVelocity ==
    /\ apc # 0 /\ Cur.op = "maxvel"
    /\ maxVel' = Cur.val
    /\ apc' = apc + 1
    /\ UNCHANGED <<teleopFrozen, running, blocked, actuators, motion, motionError>>

\* a moveVelocity that does nothing when the velocity is 0
AutonMoveVelocity_noStop ==
    /\ apc # 0 /\ Cur.op = "motor"
    /\ intake_l' = IF Cur.arg = "intake_l" /\ Cur.val # 0 THEN Cur.val ELSE intake_l
    /\ intake_r' = IF Cur.arg = "intake_r" /\ Cur.val # 0 THEN Cur.val ELSE intake_r
    /\ rollers_front' = IF Cur.arg = "rollers_front" /\ Cur.val # 0
                        THEN Cur.val ELSE rollers_front
    /\ rollers_back' = IF Cur.arg = "rollers_back" /\ Cur.val # 0
                       THEN Cur.val ELSE rollers_back
    /\ apc' = apc + 1
    /\ UNCHANGED <<teleopFrozen, running, blocked, chassisVars>>

\* <motor>.moveVelocity(v)
AutonMoveVelocity ==
    /\ apc # 0 /\ Cur.op = "motor"
    /\ intake_l' = IF Cur.arg = "intake_l" THEN Cur.val ELSE intake_l
    /\ intake_r' = IF Cur.arg = "intake_r" THEN Cur.val ELSE intake_r
    /\ rollers_front' = IF Cur.arg = "rollers_front" THEN Cur.val ELSE rollers_front
    /\ rollers_back' = IF Cur.arg = "rollers_back" THEN Cur.val ELSE rollers_back
    /\ apc' = apc + 1
    /\ UNCHANGED <<teleopFrozen, running, blocked, chassisVars>>

AutonDelay ==
    /\ apc # 0 /\ Cur.op = "delay"
    /\ apc' = apc + 1
    /\ UNCHANGED <<teleopFrozen, running, blocked, actuators, chassisVars>>

\* moveDistanceAsync: the goal is issued and the call returns at once
AutonMoveAsync ==
    /\ apc # 0 /\ Cur.op = "async"
    /\ Issue(Goal(Cur, "async"))
    /\ apc' = apc + 1
    /\ UNCHANGED <<teleopFrozen, running, blocked, actuators, maxVel>>

\* moveDistance / turnAngle: the goal is issued and the call blocks
AutonMoveSync ==
    /\ apc # 0 /\ Cur.op = "sync" /\ ~blocked
    /\ Issue(Goal(Cur, "sync"))
    /\ IF InFlight
       THEN apc' = apc + 1 /\ UNCHANGED blocked
       ELSE blocked' = TRUE /\ UNCHANGED apc
    /\ UNCHANGED <<teleopFrozen, running, actuators, maxVel>>

\* ... and returns without waiting for the motion to settle
AutonSyncReturn_early ==
    /\ apc # 0 /\ Cur.op = "sync" /\ blocked
    /\ blocked' = FALSE
    /\ apc' = apc + 1
    /\ UNCHANGED <<teleopFrozen, running, actuators, chassisVars>>

\* ... until the motion has settled
AutonSyncReturn ==
    /\ apc # 0 /\ Cur.op = "sync" /\ blocked
    /\ ~InFlight
    /\ blocked' = FALSE
    /\ apc' = apc + 1
    /\ UNCHANGED <<teleopFrozen, running, actuators, chassisVars>>

\* a join that does not wait
AutonWaitUntilSettled_noWait ==
    /\ apc # 0 /\ Cur.op = "wait"
    /\ apc' = apc + 1
    /\ UNCHANGED <<teleopFrozen, running, blocked, actuators, chassisVars>>

AutonWaitUntilSettled ==
    /\ apc # 0 /\ Cur.op = "wait"
    /\ WaitReturns
    /\ apc' = apc + 1
    /\ UNCHANGED <<teleopFrozen, running, blocked, actuators, chassisVars>>

\* a return that puts the two modes back to their initial values
AutonReturn_resetModes ==
    /\ apc # 0 /\ Cur.op = "return"
    /\ apc' = 0
    /\ running' = running - 1
    /\ maxVel' = 0
    /\ pc' = 209
    /\ dt_mode' = "FAST" /\ ctrl_mode' = "ARCADE"
    /\ UNCHANGED <<blocked, count, buttons, history, drive, actuators,
                   motion, motionError,
                   display, held, timing>>

\* the closing brace: the controller goes out of scope, opcontrol goes on
AutonReturn ==
    /\ apc # 0 /\ Cur.op = "return"
    /\ apc' = 0
    /\ running' = running - 1
    /\ maxVel' = 0
    /\ pc' = 209
    /\ UNCHANGED <<blocked, modes, count, buttons, history, drive, actuators,
                   motion, motionError,
                   display, held, timing>>

----------------------------------------------------------------------------
(* The operator: the Y and B buttons change at any time *)

PressY ==
    /\ ~btnY
    /\ btnY' = TRUE /\ yFresh' = TRUE
    /\ UNCHANGED <<pc, autonVars, modes, count, btnB, bFresh, history, drive,
                   actuators, chassisVars,
                   display, held, timing>>

ReleaseY ==
    /\ btnY
    /\ btnY' = FALSE /\ yFresh' = FALSE
    /\ UNCHANGED <<pc, autonVars, modes, count, btnB, bFresh, history, drive,
                   actuators, chassisVars,
                   display, held, timing>>

PressB ==
    /\ ~btnB
    /\ btnB' = TRUE /\ bFresh' = TRUE
    /\ UNCHANGED <<pc, autonVars, modes, count, btnY, yFresh, history, drive,
                   actuators, chassisVars,
                   display, held, timing>>

ReleaseB ==
    /\ btnB
    /\ btnB' = FALSE /\ bFresh' = FALSE
    /\ UNCHANGED <<pc, autonVars, modes, count, btnY, yFresh, history, drive,
                   actuators, chassisVars,
                   display, held, timing>>

----------------------------------------------------------------------------
(* opcontrol(): the main loop, lines 163-276 *)

Read(btn, val) == [btn |-> btn, val |-> val]

\* lcd::display_mode(controller, mode), lcd::display_battery_info(controller)
Msg(kind, val) == [kind |-> kind, val |-> val]

\* the buttons among b1, b2 that are down, v1 and v2 being their levels
Down(b1, v1, b2, v2) == {b \in {b1, b2} : (b = b1 /\ v1) \/ (b = b2 /\ v2)}

\* the stick positions the loop is followed with
FlowSticks == {0, One}

\* line 169: if (controller.getDigital(Y))
SampleY169 ==
    /\ pc = 169
    /\ sample' = Read("Y", btnY) /\ sinceSample' = 0
    /\ pc' = IF btnY THEN 170 ELSE 183
    /\ asserted' = IF btnY THEN asserted + 1 ELSE asserted
    /\ UNCHANGED <<autonVars, modes, count, buttons, yPresses, bPresses, drive,
                   actuators, chassisVars,
                   display, held, tickMs>>

\* the debounce stopping the intakes while it waits
Debounce_stopIntakes(line) ==
    /\ pc = line
    /\ sinceSample' = sinceSample + DebounceMs
    /\ tickMs' = tickMs + DebounceMs
    /\ intake_l' = 0 /\ intake_r' = 0
    /\ pc' = line + 1
    /\ UNCHANGED <<autonVars, modes, count, buttons, sample, yPresses, bPresses, drive,
                   rollers_front, rollers_back, chassisVars,
                   display, held, asserted>>

\* the debounce without its pros::delay(50)
Debounce_noSleep(line) ==
    /\ pc = line
    /\ pc' = line + 1
    /\ UNCHANGED <<autonVars, modes, count, buttons, history, drive,
                   actuators, chassisVars,
                   display, held, timing>>

\* lines 170, 184, 198: pros::delay(50)
Debounce(line) ==
    /\ pc = line
    /\ sinceSample' = sinceSample + DebounceMs
    /\ tickMs' = tickMs + DebounceMs
    /\ pc' = line + 1
    /\ UNCHANGED <<autonVars, modes, count, buttons, sample, yPresses, bPresses, drive,
                   actuators, chassisVars,
                   display, held, asserted>>

DelayY170 == Debounce(170)

\* the flip without the resample of line 171
ConfirmY171_noResample ==
    /\ pc = 171
    /\ dt_mode' = ToggleDt(dt_mode)
    /\ yPresses' = yPresses + 1
    /\ yFresh' = FALSE
    /\ lcd' = Msg("dt_mode", ToggleDt(dt_mode))
    /\ lcdCount' = lcdCount + 1
    /\ pc' = 183
    /\ UNCHANGED <<autonVars, ctrl_mode, count, btnY, btnB, bFresh, sample, sinceSample,
                   bPresses, drive, actuators, chassisVars,
                   held, timing>>

\* lines 171-179: the resample, the switch, the display of the new mode
ConfirmY171 ==
    /\ pc = 171
    /\ sample' = Read("Y", btnY) /\ sinceSample' = 0
    /\ IF btnY
       THEN /\ dt_mode' = ToggleDt(dt_mode)
            /\ yPresses' = yPresses + 1
            /\ yFresh' = FALSE
            /\ lcd' = Msg("dt_mode", dt_mode')
            /\ lcdCount' = lcdCount + 1
       ELSE UNCHANGED <<dt_mode, yPresses, yFresh, lcd, lcdCount>>
    /\ pc' = 183
    /\ UNCHANGED <<autonVars, ctrl_mode, count, btnY, btnB, bFresh, bPresses, drive,
                   actuators, chassisVars,
                   held, timing>>

\* line 183: if (controller.getDigital(B))
SampleB183 ==
    /\ pc = 183
    /\ sample' = Read("B", btnB) /\ sinceSample' = 0
    /\ pc' = IF btnB THEN 184 ELSE 197
    /\ asserted' = IF btnB THEN asserted + 1 ELSE asserted
    /\ UNCHANGED <<autonVars, modes, count, buttons, yPresses, bPresses, drive,
                   actuators, chassisVars,
                   display, held, tickMs>>

DelayB184 == Debounce(184)

\* the steering toggle displaying its mode before the switch of lines 186-191
ConfirmB185_displayFirst ==
    /\ pc = 185
    /\ sample' = Read("B", btnB) /\ sinceSample' = 0
    /\ IF btnB
       THEN /\ ctrl_mode' = ToggleCtrl(ctrl_mode)
            /\ bPresses' = bPresses + 1
            /\ bFresh' = FALSE
            /\ lcd' = Msg("ctrl_mode", ctrl_mode)
            /\ lcdCount' = lcdCount + 1
       ELSE UNCHANGED <<ctrl_mode, bPresses, bFresh, lcd, lcdCount>>
    /\ pc' = 197
    /\ UNCHANGED <<autonVars, dt_mode, count, btnY, btnB, yFresh, yPresses, drive,
                   actuators, chassisVars,
                   held, timing>>

\* lines 185-193
ConfirmB185 ==
    /\ pc = 185
    /\ sample' = Read("B", btnB) /\ sinceSample' = 0
    /\ IF btnB
       THEN /\ ctrl_mode' = ToggleCtrl(ctrl_mode)
            /\ bPresses' = bPresses + 1
            /\ bFresh' = FALSE
            /\ lcd' = Msg("ctrl_mode", ctrl_mode')
            /\ lcdCount' = lcdCount + 1
       ELSE UNCHANGED <<ctrl_mode, bPresses, bFresh, lcd, lcdCount>>
    /\ pc' = 197
    /\ UNCHANGED <<autonVars, dt_mode, count, btnY, btnB, yFresh, yPresses, drive,
                   actuators, chassisVars,
                   held, timing>>

\* line 197: if (controller.getDigital(A))
SampleA197 ==
    /\ pc = 197
    /\ \E a \in BOOLEAN :
         /\ sample' = Read("A", a)
         /\ pc' = IF a THEN 198 ELSE 209
         /\ asserted' = IF a THEN asserted + 1 ELSE asserted
    /\ sinceSample' = 0
    /\ UNCHANGED <<autonVars, modes, count, buttons, yPresses, bPresses, drive,
                   actuators, chassisVars,
                   display, held, tickMs>>

DelayA198 == Debounce(198)

\* autonomous() started as a task of its own: opcontrol goes on at once
CallAutonomous_spawn ==
    /\ pc' = 209
    /\ apc' = 1
    /\ running' = running + 1

\* line 200: autonomous() is called, and opcontrol waits inside the call
CallAutonomous ==
    /\ pc' = 200
    /\ apc' = 1
    /\ running' = running + 1

\* lines 199-201
ConfirmA199 ==
    /\ pc = 199
    /\ sinceSample' = 0
    /\ \E a \in BOOLEAN :
         /\ sample' = Read("A", a)
         /\ IF a THEN CallAutonomous
                 ELSE pc' = 209 /\ UNCHANGED <<apc, running>>
    /\ UNCHANGED <<blocked, modes, count, buttons, yPresses, bPresses, drive,
                   actuators, chassisVars,
                   display, held, timing>>

\* lines 208-229: the sticks are read and the drive command is given
DriveStage(sticks, next) ==
    /\ pc = 209
    /\ IF ctrl_mode = "ARCADE"
       THEN \E y, left_x, right_x \in sticks :
                drive' = DriveCommand(dt_mode, ctrl_mode, y, left_x, right_x, 0)
       ELSE IF ctrl_mode = "TANK"
       THEN \E left_y, right_y \in sticks :
                drive' = DriveCommand(dt_mode, ctrl_mode, left_y, 0, 0, right_y)
       ELSE UNCHANGED drive
    /\ pc' = next
    /\ UNCHANGED <<autonVars, modes, count, buttons, history, actuators, chassisVars,
                   display, held, timing>>

Drive209 == DriveStage(FlowSticks, 235)

\* the intake stage going straight on to the telemetry
Intakes235_skip ==
    /\ pc = 235
    /\ \E l1, r1 \in BOOLEAN :
         /\ sample' = IF l1 THEN Read("L1", TRUE) ELSE Read("R1", r1)
         /\ intake_l' = IF l1 THEN 200 ELSE IF r1 THEN -200 ELSE 0
         /\ intake_r' = IF l1 THEN 200 ELSE IF r1 THEN -200 ELSE 0
         /\ held' = Down("L1", l1, "R1", r1)
    /\ sinceSample' = 0
    /\ pc' = 270
    /\ UNCHANGED <<autonVars, modes, count, buttons, yPresses, bPresses, drive,
                   rollers_front, rollers_back, chassisVars,
                   display, timing>>

\* the intake stage testing R1 before L1
Intakes235_r1First ==
    /\ pc = 235
    /\ \E l1, r1 \in BOOLEAN :
         /\ sample' = IF r1 THEN Read("R1", TRUE) ELSE Read("L1", l1)
         /\ intake_l' = IF r1 THEN -200 ELSE IF l1 THEN 200 ELSE 0
         /\ intake_r' = IF r1 THEN -200 ELSE IF l1 THEN 200 ELSE 0
         /\ held' = Down("L1", l1, "R1", r1)
    /\ sinceSample' = 0
    /\ pc' = 252
    /\ UNCHANGED <<autonVars, modes, count, buttons, yPresses, bPresses, drive,
                   rollers_front, rollers_back, chassisVars,
                   display, timing>>

\* lines 235-246
Intakes235 ==
    /\ pc = 235
    /\ \E l1, r1 \in BOOLEAN :
         /\ sample' = IF l1 THEN Read("L1", TRUE) ELSE Read("R1", r1)
         /\ intake_l' = IF l1 THEN 200 ELSE IF r1 THEN -200 ELSE 0
         /\ intake_r' = IF l1 THEN 200 ELSE IF r1 THEN -200 ELSE 0
         /\ held' = Down("L1", l1, "R1", r1)
    /\ sinceSample' = 0
    /\ pc' = 252
    /\ UNCHANGED <<autonVars, modes, count, buttons, yPresses, bPresses, drive,
                   rollers_front, rollers_back, chassisVars,
                   display, timing>>

\* lines 252-263
Rollers252 ==
    /\ pc = 252
    /\ \E l2, r2 \in BOOLEAN :
         /\ sample' = IF l2 THEN Read("L2", TRUE) ELSE Read("R2", r2)
         /\ rollers_front' = IF l2 THEN 600 ELSE IF r2 THEN -600 ELSE 0
         /\ rollers_back' = IF l2 THEN 600 ELSE IF r2 THEN -600 ELSE 0
         /\ held' = Down("L2", l2, "R2", r2)
    /\ sinceSample' = 0
    /\ pc' = 270
    /\ UNCHANGED <<autonVars, modes, count, buttons, yPresses, bPresses, drive,
                   intake_l, intake_r, chassisVars,
                   display, timing>>

\* the telemetry stage reporting the battery in every iteration
TelemetryStage_always(bound) ==
    /\ pc = 270
    /\ count < bound
    /\ lcd' = Msg("battery", "info") /\ lcdCount' = lcdCount + 1
    /\ count' = count + 1
    /\ sinceSample' = sinceSample + LoopMs
    /\ tickMs' = 0 /\ asserted' = 0
    /\ pc' = 169
    /\ held' = {}
    /\ UNCHANGED <<autonVars, modes, buttons, sample, yPresses, bPresses, drive,
                   actuators, chassisVars>>

\* lines 270-275: the battery report, count++, pros::delay(10); the loop is
\* followed until count reaches bound
TelemetryStage(bound) ==
    /\ pc = 270
    /\ count < bound
    /\ IF count % LcdPeriod = 0
       THEN lcd' = Msg("battery", "info") /\ lcdCount' = lcdCount + 1
       ELSE UNCHANGED <<lcd, lcdCount>>
    /\ count' = count + 1
    /\ sinceSample' = sinceSample + LoopMs
    /\ tickMs' = 0 /\ asserted' = 0
    /\ pc' = 169
    /\ held' = {}
    /\ UNCHANGED <<autonVars, modes, buttons, sample, yPresses, bPresses, drive,
                   actuators, chassisVars>>

Telemetry270 == TelemetryStage(MaxCount)

----------------------------------------------------------------------------
(* The program from the start of opcontrol's loop, line 163 *)

Init ==
    /\ pc = 169
    /\ apc = 0 /\ running = 0 /\ blocked = FALSE
    /\ dt_mode = "FAST" /\ ctrl_mode = "ARCADE"
    /\ count = 0
    /\ btnY \in BOOLEAN /\ btnB \in BOOLEAN
    /\ yFresh = btnY /\ bFresh = btnB
    /\ sample = Read("none", FALSE) /\ sinceSample = 0
    /\ yPresses = 0 /\ bPresses = 0
    /\ drive = NoDrive
    /\ intake_l = 0 /\ intake_r = 0 /\ rollers_front = 0 /\ rollers_back = 0
    /\ motion = NoMotion /\ maxVel = 0 /\ motionError = FALSE
    /\ lcd = Msg("ctrl_mode", "ARCADE") /\ lcdCount = 2
    /\ tickMs = 0 /\ asserted = 0
    /\ held = {}

Next ==
    \/ PressY \/ ReleaseY \/ PressB \/ ReleaseB
    \/ SampleY169 \/ DelayY170 \/ ConfirmY171
    \/ SampleB183 \/ DelayB184 \/ ConfirmB185
    \/ SampleA197 \/ DelayA198 \/ ConfirmA199
    \/ Drive209 \/ Intakes235 \/ Rollers252 \/ Telemetry270
    \/ AutonBuild \/ AutonSetMaxVelocity \/ AutonMoveVelocity \/ AutonDelay
    \/ AutonMoveAsync \/ AutonMoveSync \/ AutonSyncReturn \/ AutonWaitUntilSettled
    \/ AutonReturn \/ Settle

Spec == Init /\ [][Next]_vars

----------------------------------------------------------------------------
(* The input mapping alone: lines 208-229 in every mode, over a grid of sticks *)

AxisValues == {(k * One) \div AxisLevels : k \in -AxisLevels..AxisLevels}

\* the loop at its first drive stage, in each of the four mode combinations
InitDrive ==
    /\ pc = 209
    /\ apc = 0 /\ running = 0 /\ blocked = FALSE
    /\ dt_mode \in DtModes /\ ctrl_mode \in CtrlModes
    /\ count = 0
    /\ btnY = FALSE /\ btnB = FALSE /\ yFresh = FALSE /\ bFresh = FALSE
    /\ sample = Read("A", FALSE) /\ sinceSample = 0
    /\ yPresses = (IF dt_mode = "FAST" THEN 0 ELSE 1)
    /\ bPresses = (IF ctrl_mode = "ARCADE" THEN 0 ELSE 1)
    /\ drive = NoDrive
    /\ intake_l = 0 /\ intake_r = 0 /\ rollers_front = 0 /\ rollers_back = 0
    /\ motion = NoMotion /\ maxVel = 0 /\ motionError = FALSE
    /\ lcd = (IF ctrl_mode = "TANK" THEN Msg("ctrl_mode", "TANK")
              ELSE IF dt_mode = "SLOW" THEN Msg("dt_mode", "SLOW")
              ELSE Msg("ctrl_mode", "ARCADE"))
    /\ lcdCount = 2 + yPresses + bPresses
    /\ asserted = yPresses + bPresses
    /\ tickMs = DebounceMs * asserted
    /\ held = {}

DriveAll == DriveStage(AxisValues, 235)

NextDrive == DriveAll

SpecDrive == InitDrive /\ [][NextDrive]_vars

----------------------------------------------------------------------------
(* The loop over more than 25 iterations: Y and B are never pressed, the
   sticks are at rest, A and the four actuator buttons are free *)

InitTicks == Init /\ ~btnY /\ ~btnB

DriveIdle == DriveStage({0}, 235)

TelemetryLong == TelemetryStage(MaxTicks)

NextTicks ==
    \/ SampleY169 \/ SampleB183
    \/ SampleA197 \/ DelayA198 \/ ConfirmA199
    \/ DriveIdle \/ Intakes235 \/ Rollers252 \/ TelemetryLong
    \/ AutonBuild \/ AutonSetMaxVelocity \/ AutonMoveVelocity \/ AutonDelay
    \/ AutonMoveAsync \/ AutonMoveSync \/ AutonSyncReturn \/ AutonWaitUntilSettled
    \/ AutonReturn \/ Settle

SpecTicks == InitTicks /\ [][NextTicks]_vars

\* a statement of autonomous() is executed
AutonStep ==
    \/ AutonBuild \/ AutonSetMaxVelocity \/ AutonMoveVelocity \/ AutonDelay
    \/ AutonMoveAsync \/ AutonMoveSync \/ AutonSyncReturn \/ AutonWaitUntilSettled
    \/ AutonReturn

\* the same loop where the task running autonomous() keeps being scheduled
\* and every motion in flight settles or times out in the end
SpecTicksFair == SpecTicks /\ WF_vars(AutonStep) /\ WF_vars(Settle)

----------------------------------------------------------------------------
(* Claims *)

\* C1: a mode changes only in a step that resamples its button asserted, the
\* previous getDigital call having sampled the same button asserted and the 50 ms
\* debounce wait lying between the two; a resample that finds the button not
\* asserted leaves the mode as it was.
C1_DebouncedCommit ==
    [][ /\ dt_mode' # dt_mode =>
             /\ sample = Read("Y", TRUE) /\ sinceSample = DebounceMs
             /\ btnY /\ sample' = Read("Y", TRUE)
        /\ ctrl_mode' # ctrl_mode =>
             /\ sample = Read("B", TRUE) /\ sinceSample = DebounceMs
             /\ btnB /\ sample' = Read("B", TRUE)
        /\ (pc = 171 /\ pc' # pc /\ ~btnY) => dt_mode' = dt_mode
        /\ (pc = 185 /\ pc' # pc /\ ~btnB) => ctrl_mode' = ctrl_mode ]_vars

\* the speed mode has just been flipped by a confirmed press of Y
C1_Witness == pc = 183 /\ sample = Read("Y", TRUE) /\ dt_mode = "SLOW" /\ yPresses = 1

\* C2: every change of a mode uses up a not-asserted-to-asserted transition of
\* its button: a button held down changes its mode at most once.
C2_EdgeTriggered ==
    [][ /\ dt_mode' # dt_mode => yFresh
        /\ ctrl_mode' # ctrl_mode => bFresh ]_vars

\* C3: each mode has two states and a confirmed press moves it to the other one:
\* after an even number of confirmed presses of its button a mode has its
\* initial value, after an odd number the other value, whatever else was pressed.
C3_RoundTrip ==
    /\ dt_mode = (IF yPresses % 2 = 0 THEN "FAST" ELSE "SLOW")
    /\ ctrl_mode = (IF bPresses % 2 = 0 THEN "ARCADE" ELSE "TANK")

\* two confirmed presses of Y, with B confirmed in between, are back at FAST
C3_Witness == yPresses = 2 /\ bPresses = 1 /\ dt_mode = "FAST" /\ ctrl_mode = "TANK"

\* C4 as stated: whenever the asynchronous motion is in flight, both intakes
\* are commanded 200.
C4_IntakesWholeFlight == AsyncInFlight => (intake_l = 200 /\ intake_r = 200)

\* C4 amended: the asynchronous motion is in flight only between its issue
\* (line 92) and the return of waitUntilSettled (line 95); the two intake
\* commands (lines 93, 94) follow the issue, so the left intake is at 200 once
\* line 93 has run and both are from line 95 on, for as long as the motion is in
\* flight and until waitUntilSettled has returned.
C4_IntakesDuringMotion ==
    /\ AsyncInFlight => (AtLine(93) \/ AtLine(94) \/ AtLine(95))
    /\ AtLine(94) => intake_l = 200
    /\ AtLine(95) => (intake_l = 200 /\ intake_r = 200)

\* waitUntilSettled is waiting for the motion, the intakes running
C4_Witness == AsyncInFlight /\ AtLine(95) /\ intake_l = 200 /\ intake_r = 200

\* C5: at most one autonomous() runs, and while it runs opcontrol stays inside
\* the call of line 200: it samples nothing, changes no mode, gives no drive
\* command, does not count, and every change of an intake or roller command is a
\* step of the autonomous script.
C5_ExclusiveAuthority ==
    /\ [](running <= 1 /\ (running > 0 <=> apc # 0) /\ (running > 0 => pc = 200))
    /\ [][ (running > 0 /\ running' > 0) =>
             /\ UNCHANGED <<pc, dt_mode, ctrl_mode, count, sample, sinceSample, drive>>
             /\ actuators' # actuators => apc' # apc ]_vars

\* the script commands the intakes while opcontrol waits and Y is held down
C5_Witness == running = 1 /\ pc = 200 /\ AtLine(95) /\ intake_r = 200 /\ btnY

\* the stage of the loop body a line belongs to
Stage(line) ==
    CASE line \in {169, 170, 171} -> 1
      [] line \in {183, 184, 185} -> 2
      [] line \in {197, 198, 199, 200} -> 3
      [] line = 209 -> 4
      [] line = 235 -> 5
      [] line = 252 -> 6
      [] OTHER -> 7

\* the stages follow one another in the fixed order, a new tick starting only
\* after the telemetry stage
StageOrder ==
    pc' # pc => \/ Stage(pc') = Stage(pc)
                \/ Stage(pc') = Stage(pc) + 1
                \/ (pc = 270 /\ pc' = 169)

\* the drive command is computed from the modes the toggle stage left
DriveUsesModes ==
    /\ Stage(pc) >= 3 => UNCHANGED <<dt_mode, ctrl_mode>>
    /\ (pc = 209 /\ pc' # pc) =>
          /\ drive'.dt = dt_mode
          /\ drive'.kind = (IF ctrl_mode = "ARCADE" THEN "arcade" ELSE "tank")

\* all the reads of a button within a tick see one sample: a second read of the
\* button just read returns the same value
OneSample == sample'.btn = sample.btn => sample'.val = sample.val

\* C6 as stated: one input sample per tick, the fixed stage order, the drive
\* mixing on the modes of the same tick.
C6_OneSampleFixedOrder == [][OneSample /\ StageOrder /\ DriveUsesModes]_vars

\* C6 amended: the stages of a tick run in the fixed order (speed toggle,
\* steering toggle, manual-auton trigger, drive mixing, intakes, rollers,
\* telemetry), the next tick starts only after the telemetry stage, and the
\* drive mixing uses the modes as the toggle stage of the same tick left them;
\* each stage reads the controller when it runs, a toggle or trigger button up
\* to twice, 50 ms apart, and the two reads may differ.
C6_FixedOrder == [][StageOrder /\ DriveUsesModes]_vars

\* at the telemetry stage of a tick that flipped both modes and drove with them
C6_Witness ==
    /\ pc = 270 /\ count = 1 /\ yPresses = 1 /\ bPresses = 2
    /\ drive.kind = "arcade" /\ drive.dt = "SLOW"

\* a scalar below the deadband 0.15 counts as zero
Dz(x) == IF Abs(x) < DbFine(DeadbandPct) THEN 0 ELSE x

\* C7: in ARCADE and in TANK mode alike, the wheel outputs of a drive command
\* are those of the same command with every passed scalar of magnitude below
\* 0.15 replaced by zero.
C7_DeadbandBothModes ==
    /\ drive.kind = "arcade" =>
         <<drive.left, drive.right>> =
            <<arcadeMix(Dz(drive.a), Dz(drive.b)).left,
              arcadeMix(Dz(drive.a), Dz(drive.b)).right>>
    /\ drive.kind = "tank" =>
         <<drive.left, drive.right>> = <<Dz(drive.a), Dz(drive.b)>>

\* C8: with right_x = 0 the arcade call gets forward = y and turn = left_x / 1.5
\* in FAST mode, forward = y / 4 and turn = left_x / 4 in SLOW mode (1.0 and 0.6
\* give 1.0 and 0.4, resp. 0.25 and 0.15); the tank call gets left_y and right_y
\* unchanged in FAST mode and divided by 4 in SLOW mode.
C8_SpeedScaling ==
    /\ (drive.kind = "arcade" /\ drive.rx = 0 /\ drive.dt = "FAST") =>
          /\ drive.a = drive.ly * Fine
          /\ 3 * drive.b = 2 * drive.lx * Fine
    /\ (drive.kind = "arcade" /\ drive.rx = 0 /\ drive.dt = "SLOW") =>
          /\ 4 * drive.a = drive.ly * Fine
          /\ 4 * drive.b = drive.lx * Fine
    /\ (drive.kind = "tank" /\ drive.dt = "FAST") =>
          /\ drive.a = drive.ly * Fine
          /\ drive.b = drive.ry * Fine
    /\ (drive.kind = "tank" /\ drive.dt = "SLOW") =>
          /\ 4 * drive.a = drive.ly * Fine
          /\ 4 * drive.b = drive.ry * Fine
    /\ (drive.kind = "arcade" /\ drive.rx = 0 /\ drive.ly = One
          /\ 10 * drive.lx = 6 * One) =>
          /\ drive.dt = "FAST" => (drive.a = OneF /\ 10 * drive.b = 4 * OneF)
          /\ drive.dt = "SLOW" => (100 * drive.a = 25 * OneF /\ 100 * drive.b = 15 * OneF)

\* forward 1.0 and turn 0.6 in SLOW mode: 0.25 and 0.15
C8_Witness ==
    /\ drive.kind = "arcade" /\ drive.dt = "SLOW"
    /\ drive.ly = One /\ 10 * drive.lx = 6 * One /\ drive.rx = 0
    /\ 100 * drive.a = 25 * OneF /\ 100 * drive.b = 15 * OneF

\* C9 as stated: the arcade outputs are forward + turn and forward - turn of
\* the values passed to the arcade call, clamped to [-1, 1].
C9_ClampedSumOfPassed ==
    drive.kind = "arcade" =>
        /\ drive.left = Clamp(drive.a + drive.b)
        /\ drive.right = Clamp(drive.a - drive.b)
        /\ Abs(drive.left) <= OneF /\ Abs(drive.right) <= OneF

\* C9 amended: the arcade outputs lie within [-1, 1] and are forward + turn and
\* forward - turn clamped component-wise, forward and turn being the values
\* passed to the arcade call after the 0.15 deadband has been applied to each.
C9_ClampedSumAfterDeadband ==
    drive.kind = "arcade" =>
        /\ drive.left = Clamp(Dz(drive.a) + Dz(drive.b))
        /\ drive.right = Clamp(Dz(drive.a) - Dz(drive.b))
        /\ Abs(drive.left) <= OneF /\ Abs(drive.right) <= OneF

\* full forward with both turn sticks over: the left output saturates at 1 and
\* the right one is forward - turn, not rescaled
C9_Witness ==
    /\ drive.kind = "arcade" /\ drive.dt = "FAST"
    /\ drive.a = OneF /\ drive.b > OneF
    /\ drive.left = OneF /\ drive.right = OneF - drive.b

\* C10: no ConcurrentMotionError is raised, and while a goal is active the
\* script is at no statement that issues a goal, other than inside the blocking
\* call that issued the active one.
C10_OneGoal ==
    /\ ~motionError
    /\ (InFlight /\ apc # 0 /\ Cur.op \in {"sync", "async"}) =>
          (blocked /\ motion.mode = "sync")
    /\ InFlight => apc # 0

\* the move back (line 100) is issued after the asynchronous motion has settled
C10_Witness == AtLine(100) /\ blocked /\ motion.mode = "sync" /\ motion.val = -30

----------------------------------------------------------------------------
(* The loop period *)

\* what opcontrol itself sleeps in the iteration that is about to end: the
\* debounce delays so far and the pros::delay(10) of line 275
IterationMs == tickMs + LoopMs

\* C11 as stated: every iteration of the teleop loop takes 10 ms, whatever
\* the buttons are
C11_FixedTick ==
    [][(pc = 270 /\ pc' = 169) => IterationMs = LoopMs]_vars

\* C11: every iteration ends with the 10 ms delay, and what opcontrol sleeps
\* in an iteration is 10 ms plus 50 ms for each of Y, B and A whose first
\* sample read asserted, so 10 ms only when none did
C11_TickTime ==
    [][(pc = 270 /\ pc' = 169) =>
           /\ asserted \in 0..3
           /\ IterationMs = LoopMs + DebounceMs * asserted
           /\ sinceSample' = sinceSample + LoopMs]_vars

\* an iteration in which all three buttons read asserted reaches its end
C11_Witness == pc = 270 /\ asserted = 3 /\ tickMs = 3 * DebounceMs

----------------------------------------------------------------------------
(* The battery report *)

BatterySent == lcdCount' = lcdCount + 1 /\ lcd' = Msg("battery", "info")

\* C12: the battery report is sent in an iteration exactly when count, the
\* number of iterations completed before it, is a multiple of 25 (so in the
\* first), it is sent by the telemetry stage only, and count goes up by one
\* per iteration, in the telemetry stage, whatever the iteration did before
C12_BatteryEvery25th ==
    [][IF pc = 270 /\ pc' = 169
       THEN /\ count' = count + 1
            /\ IF count % LcdPeriod = 0 THEN BatterySent ELSE UNCHANGED display
       ELSE count' = count /\ ~BatterySent]_vars

\* the 26th iteration has sent the second battery report
C12_Witness ==
    /\ pc = 169 /\ count = LcdPeriod + 1
    /\ lcd = Msg("battery", "info") /\ lcdCount = 4

----------------------------------------------------------------------------
(* The debounce wait *)

\* opcontrol is between the first sample of an asserted button and its resample
Waiting == pc \in {170, 171, 184, 185, 198, 199}

\* C13: from the first sample of an asserted Y, B or A to its resample nothing
\* is commanded and nothing is displayed: every step taken in between, the
\* 50 ms delay included, leaves the drive command, the four actuator commands
\* and the display as they were
C13_BlockingDebounce ==
    [][(Waiting /\ Waiting') =>
           /\ UNCHANGED <<drive, actuators, display>>
           /\ pc' # pc => (pc' = pc + 1 /\ tickMs' = tickMs + DebounceMs)]_vars

\* the wait for B is over while the drive and the intakes still run on the
\* commands of the iteration before
C13_Witness ==
    /\ pc = 185 /\ sample = Read("B", TRUE) /\ sinceSample = DebounceMs
    /\ drive.kind # "none" /\ intake_l = 200 /\ rollers_front = -600

----------------------------------------------------------------------------
(* The mode messages *)

\* a message of the given kind is sent to the display in this step
Sent(kind) == lcdCount' = lcdCount + 1 /\ lcd'.kind = kind

\* C14: after the two messages of lines 157-158, a speed (steering) message
\* is sent in exactly the steps that flip the speed (steering) mode, it
\* carries the mode as the flip left it, and a resample that reads the
\* button released sends nothing
C14_ModeNotification ==
    [][/\ Sent("dt_mode") <=> dt_mode' # dt_mode
       /\ Sent("ctrl_mode") <=> ctrl_mode' # ctrl_mode
       /\ Sent("dt_mode") => lcd'.val = dt_mode'
       /\ Sent("ctrl_mode") => lcd'.val = ctrl_mode'
       /\ (pc \in {171, 185} /\ pc' # pc /\ ~sample'.val) => UNCHANGED display
       /\ lcdCount >= 2]_vars

\* both modes were flipped in the first iteration and both messages followed
\* the two initial ones
C14_Witness ==
    /\ pc = 197 /\ count = 0 /\ dt_mode = "SLOW" /\ ctrl_mode = "TANK"
    /\ lcd = Msg("ctrl_mode", "TANK") /\ lcdCount = 4

----------------------------------------------------------------------------
(* The turn value of the arcade call *)

\* C15: the turn value passed to arcade is left_x / 1.5 + right_x in FAST mode
\* and left_x / 4 + right_x in SLOW mode, as it is: a sum beyond 1 in
\* magnitude is passed on beyond 1
C15_TurnSumUnclamped ==
    drive.kind = "arcade" =>
        /\ drive.dt = "FAST" => 3 * drive.b = 2 * drive.lx * Fine + 3 * drive.rx * Fine
        /\ drive.dt = "SLOW" => 4 * drive.b = drive.lx * Fine + 4 * drive.rx * Fine
        /\ (drive.lx = One /\ drive.rx = One) =>
               drive.b = (IF drive.dt = "FAST" THEN (5 * OneF) \div 3
                                              ELSE (5 * OneF) \div 4)

\* both turn axes fully right in SLOW mode: 1.25 is passed
C15_Witness ==
    /\ drive.kind = "arcade" /\ drive.dt = "SLOW"
    /\ drive.lx = One /\ drive.rx = One
    /\ drive.b > OneF /\ 4 * drive.b = 5 * OneF

----------------------------------------------------------------------------
(* The velocity caps of autonomous() *)

\* the value of the last setMaxVelocity statement before statement i
LastCap(i) ==
    LET before == {j \in 1..(i - 1) : Script[j].op = "maxvel"}
        last == CHOOSE j \in before : \A k \in before : k <= j
    IN  IF before = {} THEN 0 ELSE Script[last].val

\* the caps of the nine motions, by the line that issues them
CapAt(line) ==
    CASE line \in {78, 80} -> 100
      [] line = 82 -> 200
      [] line \in {85, 87} -> 120
      [] line = 92 -> 80
      [] line \in {100, 104, 106} -> 120
      [] OTHER -> 0

\* C16: a motion is issued under the cap of the last setMaxVelocity before it,
\* which is 100, 100, 200, 120, 120, 80 (the asynchronous one), 120, 120, 120
\* in the order of the script; its cap stays as issued while it is in flight,
\* and no step taken while the asynchronous motion is in flight changes the
\* cap of the controller
C16_VelocityCaps ==
    [][/\ (~InFlight /\ InFlight') =>
            /\ motion'.cap = LastCap(apc)
            /\ motion'.cap = CapAt(Cur.line)
            /\ motion'.cap = maxVel
            /\ motion'.mode = "async" <=> Cur.line = 92
       /\ (InFlight /\ InFlight') => motion' = motion
       /\ AsyncInFlight => maxVel' = maxVel]_vars

\* the asynchronous motion is in flight under its cap of 80 at the join
C16_Witness ==
    /\ AtLine(95) /\ AsyncInFlight
    /\ motion.cap = 80 /\ maxVel = 80 /\ motion.val = 30

----------------------------------------------------------------------------
(* The actuator pulses of autonomous() *)

\* autonomous() is at the delay of one of its two pulses (lines 71, 113)
InPulse == AtLine(71) \/ AtLine(113)

AllAt(rollers, intakes) ==
    /\ rollers_front = rollers /\ rollers_back = rollers
    /\ intake_l = intakes /\ intake_r = intakes

\* C17: at the delay of either pulse both rollers are at 600 and both intakes
\* at 200, the delay is one of 1000 ms, no motion is active and none is issued
\* and no actuator command changes until the delay is over; the four zero
\* commands follow at once, so that all four are at 0 when the next step of
\* the script (line 78, resp. the return) is reached
C17_ActuatorPulse ==
    /\ [](InPulse => (AllAt(600, 200) /\ ~InFlight
                         /\ Cur.op = "delay" /\ Cur.val = 1000))
    /\ []((AtLine(78) \/ AtLine(118)) => AllAt(0, 0))
    /\ [][InPulse => (UNCHANGED <<actuators, motion>>
                        /\ (apc' # apc => (AtLine(72) \/ AtLine(114))'))]_vars

\* the shoot pulse was held over its delay and is about to be zeroed
C17_Witness == AtLine(114) /\ AllAt(600, 200) /\ ~InFlight

----------------------------------------------------------------------------
(* The actuator buttons *)

\* the velocity v forward if button fwd is down, else -v if rev is, else 0
ButtonVelocity(down, fwd, rev, v) ==
    IF fwd \in down THEN v ELSE IF rev \in down THEN -v ELSE 0

\* C18: the intake stage commands both intakes 200 if L1 is down (R1 down or
\* not), else -200 if R1 is down, else 0, whatever they were commanded
\* before, and leaves the rollers alone; the roller stage does the same with
\* L2, R2 and 600 and leaves the intakes alone; the telemetry stage changes
\* neither, so the commands stand as the buttons of this iteration set them
C18_ActuatorButtons ==
    [][/\ (pc = 235 /\ pc' # pc) =>
            /\ intake_l' = ButtonVelocity(held', "L1", "R1", 200)
            /\ intake_r' = intake_l'
            /\ UNCHANGED <<rollers_front, rollers_back>>
       /\ (pc = 252 /\ pc' # pc) =>
            /\ rollers_front' = ButtonVelocity(held', "L2", "R2", 600)
            /\ rollers_back' = rollers_front'
            /\ UNCHANGED <<intake_l, intake_r>>
       /\ (pc = 270 /\ pc' # pc) => UNCHANGED actuators]_vars

\* L1 and R1 were both down in the second iteration: the intakes run forward
C18_Witness ==
    /\ pc = 252 /\ count = 1 /\ held = {"L1", "R1"}
    /\ intake_l = 200 /\ intake_r = 200 /\ rollers_front = -600

----------------------------------------------------------------------------
(* The return of autonomous() *)

\* C19: an invocation of autonomous() returns in the end if every motion it
\* issues settles in the end, and the step that returns is taken with all four
\* actuators last commanded 0 and no goal active on the controller, and
\* changes neither
C19_AutonReturns ==
    /\ (running > 0) ~> (running = 0)
    /\ [][(running > 0 /\ running' = 0) =>
              /\ AtLine(118) /\ AllAt(0, 0) /\ ~InFlight
              /\ UNCHANGED <<actuators, motion>>]_vars

\* autonomous(), called in the second iteration of the loop, has returned to
\* it with everything stopped
C19_Witness ==
    /\ pc = 209 /\ sample = Read("A", TRUE) /\ running = 0 /\ count = 1
    /\ AllAt(0, 0) /\ ~InFlight /\ held = {}

----------------------------------------------------------------------------
(* The writers of the modes *)

\* C20: the speed mode is written by the Y slot only (line 171 on) and the
\* steering mode by the B slot only (line 185 on); a step that flips one mode
\* is a confirmed press of its own button and leaves the other mode and the
\* other button's count alone, and a mode is unchanged in every step that is
\* not a confirmed press of its button: the statements of autonomous(), the
\* A slot, the drive stage, the actuator stages and the telemetry stage
C20_IndependentSlots ==
    [][/\ dt_mode' # dt_mode <=> yPresses' # yPresses
       /\ ctrl_mode' # ctrl_mode <=> bPresses' # bPresses
       /\ dt_mode' # dt_mode =>
            (pc = 171 /\ UNCHANGED <<ctrl_mode, bPresses>>)
       /\ ctrl_mode' # ctrl_mode =>
            (pc = 185 /\ UNCHANGED <<dt_mode, yPresses>>)
       /\ (apc # 0 \/ pc \in {197, 198, 199, 200, 209, 235, 252, 270}) =>
            UNCHANGED modes]_vars

\* autonomous() has returned in an iteration in which Y alone was confirmed:
\* the speed mode is the flipped one, the steering mode the initial one
C20_Witness ==
    /\ pc = 209 /\ sample = Read("A", TRUE) /\ running = 0 /\ count = 0
    /\ yPresses = 1 /\ bPresses = 0
    /\ dt_mode = "SLOW" /\ ctrl_mode = "ARCADE"

====
